---- MODULE Spec2Model ----
(***************************************************************************)
(* Model of FInanceTrackerMain.py: the TransactionQueue (singly linked    *)
(* FIFO), Account, AccountBST (unbalanced binary search tree keyed by     *)
(* name) and FinanceTracker (tree + duplicate-check map, persistence).    *)
(* Objects live in heaps indexed by positive integers; None is 0.         *)
(* Numbers are Python ints (exact arithmetic).                             *)
(***************************************************************************)
EXTENDS Integers, Sequences, FiniteSets, TLC

VARIABLES
    accounts_tree,  \* FinanceTracker.accounts_tree : [root, nodes] (AccountBST + its AccountNodes)
    account_map,    \* FinanceTracker.account_map   : name -> Account object id
    heap,           \* the Account objects          : id -> [name, balance, transactions]
    disk,           \* content of the file written by save_to_file
    last,           \* the last call made on the tracker and what it returned
    saved,          \* history: the tracker as seen by its queries when save_to_file ran
    opening,        \* history: name -> initial_balance of the add_account that created it
    calls,          \* history: number of calls made so far
    queue,          \* a stand-alone TransactionQueue
    qlast           \* the last call made on the stand-alone queue and what it returned

vars == <<accounts_tree, account_map, heap, disk, last, saved, opening, calls,
          queue, qlast>>

----------------------------------------------------------------------------
(* Bounds of the model *)

MaxCalls == 4        \* calls made on a tracker at most
MaxQueue == 3        \* records the stand-alone queue holds at most

None == 0

\* Account names: strings over the alphabet {1, 2} ("a", "ab", "b").
Names == {<<1>>, <<1, 2>>, <<2>>}
\* Inputs of update_balance (a withdrawal, nothing, a deposit) and of add_account.
Amounts == {0 - 2, 0, 1}
Balances == {0, 1}
Descriptions == {"", "rent"}

----------------------------------------------------------------------------
(* Python's str comparison: lexicographic, a proper prefix is smaller *)

RECURSIVE StrLess(_, _)
StrLess(a, b) ==
    IF b = <<>> THEN FALSE
    ELSE IF a = <<>> THEN TRUE
    ELSE IF Head(a) # Head(b) THEN Head(a) < Head(b)
    ELSE StrLess(Tail(a), Tail(b))

\* The object id a constructor gets: the smallest one not in use.
FreshId(used) ==
    CHOOSE i \in 1..(Cardinality(used) + 1) :
        /\ i \notin used
        /\ \A j \in 1..(i - 1) : j \in used

----------------------------------------------------------------------------
(* TransactionQueue *)

TransactionNode(data) == [data |-> data, next |-> None]

NewQueue == [nodes |-> <<>>, front |-> None, rear |-> None, size |-> 0]

RECURSIVE ReachFrom(_, _)
ReachFrom(nodes, n) ==
    IF n = None \/ n \notin DOMAIN nodes THEN {}
    ELSE {n} \cup ReachFrom(nodes, nodes[n].next)

\* Nodes no reference leads to are reclaimed.
Collect(q) ==
    LET live == ReachFrom(q.nodes, q.front) \cup ReachFrom(q.nodes, q.rear)
    IN  [q EXCEPT !.nodes = [n \in live |-> q.nodes[n]]]

enqueue(q, item) ==
    LET node == FreshId(DOMAIN q.nodes)
        nodes1 == (node :> TransactionNode(item)) @@ q.nodes
    IN  IF q.rear = None
        THEN [nodes |-> nodes1, front |-> node, rear |-> node,
              size |-> q.size + 1]
        ELSE [nodes |-> [nodes1 EXCEPT ![q.rear].next = node],
              front |-> q.front, rear |-> node, size |-> q.size + 1]

\* Variant: rear is not cleared when the last record leaves.
dequeue_keeprear(q) ==
    IF q.front = None
    THEN [q |-> q, item |-> <<>>]
    ELSE LET q1 == [q EXCEPT !.front = q.nodes[q.front].next, !.size = @ - 1]
         IN  [q |-> Collect(q1), item |-> <<q.nodes[q.front].data>>]

\* Returns the queue and the item as <<item>>, <<>> standing for None.
dequeue(q) ==
    IF q.front = None
    THEN [q |-> q, item |-> <<>>]
    ELSE LET front1 == q.nodes[q.front].next
             q1 == [q EXCEPT !.front = front1,
                             !.rear = IF front1 = None THEN None ELSE @,
                             !.size = @ - 1]
         IN  [q |-> Collect(q1), item |-> <<q.nodes[q.front].data>>]

RECURSIVE IterFrom(_, _)
IterFrom(nodes, current) ==
    IF current = None THEN <<>>
    ELSE <<nodes[current].data>> \o IterFrom(nodes, nodes[current].next)

\* TransactionQueue.__iter__, run to exhaustion: list(queue)
Iter(q) == IterFrom(q.nodes, q.front)

----------------------------------------------------------------------------
(* Account *)

Account(name, balance) ==
    [name |-> name, balance |-> balance, transactions |-> NewQueue]

Record(type, amount, description) ==
    [type |-> type, amount |-> amount, description |-> description]

\* Variant: the balance is assigned, not increased.
deposit_assign(acc, amount, description) ==
    [acc EXCEPT !.balance = amount,
                !.transactions = enqueue(@, Record("Deposit", amount, description))]

deposit(acc, amount, description) ==
    [acc EXCEPT !.balance = @ + amount,
                !.transactions = enqueue(@, Record("Deposit", amount, description))]

\* Variant: a withdrawal above the balance is refused.
withdraw_blocking(acc, amount, description) ==
    IF amount > acc.balance THEN acc
    ELSE [acc EXCEPT !.balance = @ - amount,
                     !.transactions =
                         enqueue(@, Record("Withdrawal", amount, description))]

\* The insufficient-funds warning is a dialog only; the withdrawal proceeds.
withdraw(acc, amount, description) ==
    [acc EXCEPT !.balance = @ - amount,
                !.transactions = enqueue(@, Record("Withdrawal", amount, description))]

----------------------------------------------------------------------------
(* AccountBST; h is the heap of Account objects the nodes refer to *)

AccountNode(account) == [account |-> account, left |-> None, right |-> None]

NewBST == [root |-> None, nodes |-> <<>>]

RECURSIVE insert_recursive(_, _, _, _)
insert_recursive(t, node, account, h) ==
    LET new == FreshId(DOMAIN t.nodes)
        name == h[account].name
        here == h[t.nodes[node].account].name
    IN  IF name = here
        THEN [tree |-> t, ok |-> FALSE]
        ELSE IF StrLess(name, here)
        THEN IF t.nodes[node].left = None
             THEN [tree |-> [t EXCEPT !.nodes = (new :> AccountNode(account))
                                        @@ [@ EXCEPT ![node].left = new]],
                   ok |-> TRUE]
             ELSE insert_recursive(t, t.nodes[node].left, account, h)
        ELSE IF t.nodes[node].right = None
             THEN [tree |-> [t EXCEPT !.nodes = (new :> AccountNode(account))
                                        @@ [@ EXCEPT ![node].right = new]],
                   ok |-> TRUE]
             ELSE insert_recursive(t, t.nodes[node].right, account, h)

insert(t, account, h) ==
    IF t.root = None
    THEN LET new == FreshId(DOMAIN t.nodes)
         IN  [tree |-> [root |-> new,
                        nodes |-> (new :> AccountNode(account)) @@ t.nodes],
              ok |-> TRUE]
    ELSE insert_recursive(t, t.root, account, h)

\* Variant: a greater name is looked for in the left subtree too.
RECURSIVE find_leftonly(_, _, _, _)
find_leftonly(t, node, name, h) ==
    IF node = None THEN None
    ELSE IF name = h[t.nodes[node].account].name THEN t.nodes[node].account
    ELSE find_leftonly(t, t.nodes[node].left, name, h)

RECURSIVE find_recursive(_, _, _, _)
find_recursive(t, node, name, h) ==
    IF node = None THEN None
    ELSE IF name = h[t.nodes[node].account].name THEN t.nodes[node].account
    ELSE IF StrLess(name, h[t.nodes[node].account].name)
         THEN find_recursive(t, t.nodes[node].left, name, h)
         ELSE find_recursive(t, t.nodes[node].right, name, h)

find(t, name, h) == find_recursive(t, t.root, name, h)

\* Variant: the node is visited before its left subtree.
RECURSIVE _preorder(_, _)
_preorder(t, node) ==
    IF node = None THEN <<>>
    ELSE <<t.nodes[node].account>> \o _preorder(t, t.nodes[node].left)
         \o _preorder(t, t.nodes[node].right)

RECURSIVE _inorder(_, _)
_inorder(t, node) ==
    IF node = None THEN <<>>
    ELSE _inorder(t, t.nodes[node].left) \o <<t.nodes[node].account>>
         \o _inorder(t, t.nodes[node].right)

\* The Account objects (ids) in traversal order.
inorder(t) == _inorder(t, t.root)

----------------------------------------------------------------------------
(* FinanceTracker; a tracker T is [tree, map, heap] *)

NewTracker == [tree |-> NewBST, map |-> <<>>, heap |-> <<>>]

\* Variant: no duplicate check; the map entry is overwritten.
add_account_nocheck(T, name, initial_balance) ==
    LET acc == FreshId(DOMAIN T.heap)
        heap1 == (acc :> Account(name, initial_balance)) @@ T.heap
        tree1 == insert(T.tree, acc, heap1).tree
    IN  [T |-> [tree |-> tree1,
                map |-> [n \in DOMAIN T.map \cup {name} |->
                            IF n = name THEN acc ELSE T.map[n]],
                heap |-> heap1],
         acc |-> acc]

\* Returns the tracker and the new Account (acc), None when the name exists.
add_account(T, name, initial_balance) ==
    IF name \in DOMAIN T.map
    THEN [T |-> T, acc |-> None]
    ELSE LET acc == FreshId(DOMAIN T.heap)
             heap1 == (acc :> Account(name, initial_balance)) @@ T.heap
             tree1 == insert(T.tree, acc, heap1).tree
         IN  [T |-> [tree |-> tree1, map |-> (name :> acc) @@ T.map,
                     heap |-> heap1],
              acc |-> acc]

search_account(T, name) == find(T.tree, name, T.heap)

\* Python's `description or default`
OrDefault(description, default) ==
    IF description = "" THEN default ELSE description

update_balance(T, name, amount, description) ==
    LET acc == search_account(T, name)
    IN  IF acc = None
        THEN [T |-> T, ok |-> FALSE]
        ELSE IF amount >= 0
        THEN [T |-> [T EXCEPT !.heap[acc] =
                        deposit(@, amount, OrDefault(description, "Deposit"))],
              ok |-> TRUE]
        ELSE [T |-> [T EXCEPT !.heap[acc] =
                        withdraw(@, 0 - amount, OrDefault(description, "Withdrawal"))],
              ok |-> TRUE]

\* [(acc.name, acc.balance) for acc in accounts]
Pairs(accounts, h) ==
    [i \in 1..Len(accounts) |-> <<h[accounts[i]].name, h[accounts[i]].balance>>]

list_accounts(T) == Pairs(inorder(T.tree), T.heap)

Reverse(s) == [i \in 1..Len(s) |-> s[Len(s) + 1 - i]]

\* list.sort is stable: x goes behind every element whose key is <= its key.
RECURSIVE InsertByBalance(_, _, _)
InsertByBalance(sorted, x, h) ==
    IF sorted = <<>> THEN <<x>>
    ELSE IF h[sorted[Len(sorted)]].balance <= h[x].balance
         THEN Append(sorted, x)
         ELSE Append(InsertByBalance(SubSeq(sorted, 1, Len(sorted) - 1), x, h),
                     sorted[Len(sorted)])

RECURSIVE SortByBalance(_, _)
SortByBalance(accounts, h) ==
    IF accounts = <<>> THEN <<>>
    ELSE InsertByBalance(
             SortByBalance(SubSeq(accounts, 1, Len(accounts) - 1), h),
             accounts[Len(accounts)], h)

\* Variant: descending is the ascending result reversed.
sort_unstable(accounts, reverse, h) ==
    IF reverse
    THEN Reverse(SortByBalance(accounts, h))
    ELSE SortByBalance(accounts, h)

\* list.sort(key=balance, reverse=descending): with reverse the list is
\* reversed, sorted stably and reversed again, which keeps equal keys in order.
sort(accounts, reverse, h) ==
    IF reverse
    THEN Reverse(SortByBalance(Reverse(accounts), h))
    ELSE SortByBalance(accounts, h)

sort_accounts_by_balance(T, descending) ==
    Pairs(sort(inorder(T.tree), descending, T.heap), T.heap)

\* A file: kind "none" (no such file), "garbage" (not JSON) or "json"
\* (a JSON array of objects, items).
NoFile == [kind |-> "none", items |-> <<>>]
Garbage == [kind |-> "garbage", items |-> <<>>]
Json(items) == [kind |-> "json", items |-> items]

\* The file save_to_file writes.
save_to_file(T) ==
    LET accounts == inorder(T.tree)
    IN  Json([i \in 1..Len(accounts) |->
                [name |-> T.heap[accounts[i]].name,
                 balance |-> T.heap[accounts[i]].balance,
                 transactions |-> Iter(T.heap[accounts[i]].transactions)]])

RECURSIVE EnqueueAll(_, _)
EnqueueAll(q, items) ==
    IF items = <<>> THEN q
    ELSE EnqueueAll(enqueue(q, Head(items)), Tail(items))

\* The loop of load_from_file; it stops at the first exception.
RECURSIVE load_items(_, _)
load_items(T, data) ==
    IF data = <<>> THEN [T |-> T, error |-> ""]
    ELSE LET item == Head(data)
         IN  IF "name" \notin DOMAIN item \/ "balance" \notin DOMAIN item
             THEN [T |-> T, error |-> "KeyError"]
             ELSE LET r == add_account(T, item.name, item.balance)
                      txs == IF "transactions" \in DOMAIN item
                             THEN item.transactions ELSE <<>>
                  IN  IF txs = <<>> THEN load_items(r.T, Tail(data))
                      ELSE IF r.acc = None
                      THEN [T |-> r.T, error |-> "AttributeError"]
                      ELSE load_items(
                               [r.T EXCEPT !.heap[r.acc].transactions =
                                               EnqueueAll(@, txs)],
                               Tail(data))

\* Variant: the tree and the map are not reset before the records are added.
load_from_file_noreset(T, file) ==
    IF file.kind = "none" THEN [T |-> T, error |-> "FileNotFoundError"]
    ELSE IF file.kind = "garbage" THEN [T |-> T, error |-> "JSONDecodeError"]
    ELSE load_items(T, file.items)

\* Returns the tracker and the exception raised ("" for none).
load_from_file(T, file) ==
    IF file.kind = "none" THEN [T |-> T, error |-> "FileNotFoundError"]
    ELSE IF file.kind = "garbage" THEN [T |-> T, error |-> "JSONDecodeError"]
    ELSE load_items(NewTracker, file.items)

----------------------------------------------------------------------------
(* The tracker as a state machine: one action per public method *)

T == [tree |-> accounts_tree, map |-> account_map, heap |-> heap]

SetTracker(T1) ==
    /\ accounts_tree' = T1.tree
    /\ account_map' = T1.map
    /\ heap' = T1.heap

\* What a step records: the method called and whether it succeeded.
Call(op, ok) ==
    /\ calls < MaxCalls
    /\ calls' = calls + 1
    /\ last' = [op |-> op, ok |-> ok]

\* Files a user may pick for load_from_file besides the one save_to_file wrote.
Dep1 == Record("Deposit", 1, "Deposit")
ExternalFiles == <<
    Garbage,
    Json(<<>>),
    \* well formed, names not in order
    Json(<<[name |-> <<2>>, balance |-> 1, transactions |-> <<Dep1>>],
           [name |-> <<1>>, balance |-> 0, transactions |-> <<>>]>>),
    \* a repeated name, the second record with transactions
    Json(<<[name |-> <<1>>, balance |-> 1, transactions |-> <<Dep1>>],
           [name |-> <<1>>, balance |-> 2, transactions |-> <<Dep1>>]>>),
    \* a repeated name, no transactions
    Json(<<[name |-> <<1>>, balance |-> 1], [name |-> <<1>>, balance |-> 2]>>),
    \* a record without name
    Json(<<[name |-> <<1, 2>>, balance |-> 0], [balance |-> 1]>>),
    \* a record without balance
    Json(<<[name |-> <<2>>]>> ) >>

NoSave == [list |-> <<>>, txs |-> <<>>, opening |-> <<>>]

\* Per-account transaction sequences, by name.
Transactions(T1) ==
    [n \in DOMAIN T1.map |-> Iter(T1.heap[T1.map[n]].transactions)]

Init ==
    /\ accounts_tree = NewBST
    /\ account_map = <<>>
    /\ heap = <<>>
    /\ disk = NoFile
    /\ last = [op |-> "init", ok |-> TRUE]
    /\ saved = NoSave
    /\ opening = <<>>
    /\ calls = 0
    /\ queue = NewQueue
    /\ qlast = [op |-> "init", item |-> <<>>, result |-> <<>>]

AddAccount(name, initial_balance) ==
    /\ LET r == add_account(T, name, initial_balance)
       IN  /\ SetTracker(r.T)
           /\ Call("add_account", r.acc # None)
           /\ opening' = IF r.acc # None
                         THEN (name :> initial_balance) @@ opening
                         ELSE opening
    /\ UNCHANGED <<disk, saved, queue, qlast>>

SearchAccount(name) ==
    /\ Call("search_account", search_account(T, name) # None)
    /\ UNCHANGED <<accounts_tree, account_map, heap, disk, saved, opening,
                   queue, qlast>>

UpdateBalance(name, amount, description) ==
    /\ LET r == update_balance(T, name, amount, description)
       IN  /\ SetTracker(r.T)
           /\ Call("update_balance", r.ok)
    /\ UNCHANGED <<disk, saved, opening, queue, qlast>>

ListAccounts ==
    /\ Call("list_accounts", TRUE)
    /\ UNCHANGED <<accounts_tree, account_map, heap, disk, saved, opening,
                   queue, qlast>>

SortAccountsByBalance(descending) ==
    /\ Call(IF descending THEN "sort_accounts_by_balance(True)"
            ELSE "sort_accounts_by_balance(False)", TRUE)
    /\ UNCHANGED <<accounts_tree, account_map, heap, disk, saved, opening,
                   queue, qlast>>

SaveToFile ==
    /\ disk' = save_to_file(T)
    /\ saved' = [list |-> list_accounts(T), txs |-> Transactions(T),
                 opening |-> opening]
    /\ Call("save_to_file", TRUE)
    /\ UNCHANGED <<accounts_tree, account_map, heap, opening, queue, qlast>>

\* load_from_file of the file save_to_file wrote (of no file, before a save)
LoadSaved ==
    /\ LET r == load_from_file(T, disk)
       IN  /\ SetTracker(r.T)
           /\ Call("load_saved", r.error = "")
           /\ opening' = IF r.error = "" THEN saved.opening ELSE opening
    /\ UNCHANGED <<disk, saved, queue, qlast>>

\* load_from_file of any other file
LoadExternal(file) ==
    /\ LET r == load_from_file(T, file)
       IN  /\ SetTracker(r.T)
           /\ Call("load_external", r.error = "")
           /\ opening' = IF file.kind = "json"
                         THEN [n \in DOMAIN r.T.map |->
                                  r.T.heap[r.T.map[n]].balance]
                         ELSE opening
    /\ UNCHANGED <<disk, saved, queue, qlast>>

Mutators ==
    \/ \E name \in Names, b \in Balances : AddAccount(name, b)
    \/ \E name \in Names, amount \in Amounts, d \in Descriptions :
           UpdateBalance(name, amount, d)
    \/ SaveToFile
    \/ LoadSaved

Queries ==
    \/ \E name \in Names : SearchAccount(name)
    \/ ListAccounts
    \/ \E descending \in BOOLEAN : SortAccountsByBalance(descending)

Next ==
    \/ Mutators
    \/ Queries
    \/ \E i \in 1..Len(ExternalFiles) : LoadExternal(ExternalFiles[i])

Spec == Init /\ [][Next]_vars

\* Only files the tracker wrote itself are loaded.
NextSaved == Mutators \/ Queries

SpecSaved == Init /\ [][NextSaved]_vars

----------------------------------------------------------------------------
(* The stand-alone TransactionQueue as a state machine *)

QItems == {Record("Deposit", 1, "Deposit"), Record("Withdrawal", 2, "rent")}

TrackerVars == <<accounts_tree, account_map, heap, disk, last, saved, opening,
                 calls>>

QEnqueue(item) ==
    /\ queue.size < MaxQueue
    /\ queue' = enqueue(queue, item)
    /\ qlast' = [op |-> "enqueue", item |-> <<item>>, result |-> <<>>]
    /\ UNCHANGED TrackerVars

QDequeue ==
    /\ queue' = dequeue(queue).q
    /\ qlast' = [op |-> "dequeue", item |-> dequeue(queue).item,
                 result |-> <<>>]
    /\ UNCHANGED TrackerVars

QIterate ==
    /\ qlast' = [op |-> "iter", item |-> <<>>, result |-> Iter(queue)]
    /\ UNCHANGED queue
    /\ UNCHANGED TrackerVars

NextQueue ==
    \/ \E item \in QItems : QEnqueue(item)
    \/ QDequeue
    \/ QIterate

SpecQueue == Init /\ [][NextQueue]_vars

----------------------------------------------------------------------------
(* Properties *)

Account_(name) == heap[account_map[name]]

\* Sum of the amounts of the records of one type.
RECURSIVE SumOf(_, _)
SumOf(records, type) ==
    IF records = <<>> THEN 0
    ELSE (IF Head(records).type = type THEN Head(records).amount ELSE 0)
         + SumOf(Tail(records), type)

\* C1: list_accounts() holds exactly one (name, balance) pair per account
\* that was added successfully, the names in strict ascending order.
ListAccountsSorted ==
    LET l == list_accounts(T)
    IN  /\ \A i \in 1..(Len(l) - 1) : StrLess(l[i][1], l[i + 1][1])
        /\ {l[i][1] : i \in 1..Len(l)} = DOMAIN opening
        /\ Len(l) = Cardinality(DOMAIN opening)
        /\ \A i \in 1..Len(l) : l[i][2] = Account_(l[i][1]).balance

\* Three accounts, the first one added not being the smallest, one add rejected
\* or not: the list has been asked for.
ListAccountsSortedWitness ==
    /\ last.op = "list_accounts"
    /\ Len(list_accounts(T)) = 3
    /\ accounts_tree.nodes[accounts_tree.root].left # None

\* C2: add_account of a name that is present returns no account and changes
\* nothing: tree, map, accounts (balances and histories) and file stay.
DuplicateRejected ==
    [][\A name \in Names, b \in Balances :
          (name \in DOMAIN account_map /\ AddAccount(name, b))
              => /\ add_account(T, name, b).acc = None
                 /\ ~last'.ok
                 /\ UNCHANGED <<accounts_tree, account_map, heap, disk>>]_vars

\* A duplicate was rejected while the account had a history.
DuplicateRejectedWitness ==
    /\ last.op = "add_account"
    /\ ~last.ok
    /\ \E a \in DOMAIN heap : heap[a].transactions.size > 0

\* C3: update_balance on an existing account succeeds and changes only that
\* account: amount >= 0 adds to the balance and appends one Deposit of amount,
\* amount < 0 subtracts |amount| and appends one Withdrawal of |amount|,
\* whatever the balance.
UpdateBalanceEffect ==
    [][\A name \in Names, amount \in Amounts, d \in Descriptions :
          (name \in DOMAIN account_map /\ UpdateBalance(name, amount, d))
              => LET a == account_map[name]
                     old == Iter(heap[a].transactions)
                     new == Iter(heap'[a].transactions)
                 IN  /\ last'.ok
                     /\ UNCHANGED <<accounts_tree, account_map, disk>>
                     /\ DOMAIN heap' = DOMAIN heap
                     /\ \A o \in DOMAIN heap \ {a} : heap'[o] = heap[o]
                     /\ heap'[a].name = name
                     /\ Len(new) = Len(old) + 1
                     /\ SubSeq(new, 1, Len(old)) = old
                     /\ IF amount >= 0
                        THEN /\ heap'[a].balance = heap[a].balance + amount
                             /\ new[Len(new)].type = "Deposit"
                             /\ new[Len(new)].amount = amount
                        ELSE /\ heap'[a].balance = heap[a].balance - (0 - amount)
                             /\ new[Len(new)].type = "Withdrawal"
                             /\ new[Len(new)].amount = 0 - amount]_vars

\* A withdrawal above the balance went through: the balance is negative.
UpdateBalanceEffectWitness ==
    /\ last.op = "update_balance"
    /\ last.ok
    /\ \E a \in DOMAIN heap :
          LET txs == Iter(heap[a].transactions)
          IN  /\ heap[a].balance < 0
              /\ txs # <<>>
              /\ txs[Len(txs)].type = "Withdrawal"
              /\ txs[Len(txs)].amount > heap[a].balance + txs[Len(txs)].amount

\* C4: loading the file save_to_file wrote gives back the (name, balance)
\* list and the per-account transaction sequences of the tracker that was
\* saved, whatever the tracker held before the load.
SaveLoadRoundTrip ==
    (last.op = "load_saved" /\ disk.kind = "json")
        => /\ last.ok
           /\ list_accounts(T) = saved.list
           /\ DOMAIN account_map = DOMAIN saved.txs
           /\ \A n \in DOMAIN account_map :
                 Iter(Account_(n).transactions) = saved.txs[n]

\* A saved tracker with a history was loaded back.
SaveLoadRoundTripWitness ==
    /\ last.op = "load_saved"
    /\ last.ok
    /\ \E n \in DOMAIN saved.txs : saved.txs[n] # <<>>

\* Ordered by balance in the direction asked for, equal balances by name.
OrderedByBalance(r, descending) ==
    \A i \in 1..(Len(r) - 1) :
        /\ IF descending THEN r[i][2] >= r[i + 1][2] ELSE r[i][2] <= r[i + 1][2]
        /\ r[i][2] = r[i + 1][2] => StrLess(r[i][1], r[i + 1][1])

\* C5: sort_accounts_by_balance returns a permutation of list_accounts()
\* ordered by balance, ties in ascending name order for both flags; with
\* distinct balances descending is the reverse of ascending; the tracker is
\* not changed.
SortByBalanceCorrect ==
    [][\A descending \in BOOLEAN :
          SortAccountsByBalance(descending)
              => LET l == list_accounts(T)
                     r == sort_accounts_by_balance(T, descending)
                     o == sort_accounts_by_balance(T, ~descending)
                 IN  /\ Len(r) = Len(l)
                     /\ {r[i] : i \in 1..Len(r)} = {l[i] : i \in 1..Len(l)}
                     /\ OrderedByBalance(r, descending)
                     /\ (\A i, j \in 1..Len(l) : i # j => l[i][2] # l[j][2])
                            => r = Reverse(o)
                     /\ T' = T
                     /\ disk' = disk]_vars

\* A descending sort was asked for with three accounts, two of equal balance.
SortByBalanceCorrectWitness ==
    /\ last.op = "sort_accounts_by_balance(True)"
    /\ Len(list_accounts(T)) = 3
    /\ \E a, b \in DOMAIN heap : a # b /\ heap[a].balance = heap[b].balance
    /\ \E a, b \in DOMAIN heap : heap[a].balance # heap[b].balance

\* C6: the names in the tree are the keys of the map, no name is twice in the
\* tree, and search_account finds for every name the object the map holds,
\* and nothing exactly for the names that are no key.
TreeMapConsistent ==
    LET accounts == inorder(accounts_tree)
        names == {heap[accounts[i]].name : i \in 1..Len(accounts)}
    IN  /\ names = DOMAIN account_map
        /\ Cardinality(names) = Len(accounts)
        /\ \A name \in Names :
              IF name \in DOMAIN account_map
              THEN search_account(T, name) = account_map[name]
              ELSE search_account(T, name) = None

\* A load stopped part-way and left accounts behind.
TreeMapConsistentWitness ==
    /\ last.op = "load_external"
    /\ ~last.ok
    /\ DOMAIN account_map # {}

RecordAmountsPositive ==
    \A a \in DOMAIN heap :
        \A i \in 1..Len(Iter(heap[a].transactions)) :
            LET rec == Iter(heap[a].transactions)[i]
            IN  /\ rec.type \in {"Deposit", "Withdrawal"}
                /\ rec.amount > 0

\* C9: enqueue appends at the tail, dequeue removes and returns the oldest
\* record (the empty signal, changing nothing, on an empty queue), iteration
\* yields the records oldest first and changes nothing, size is the number of
\* records reachable from front, rear is empty exactly when front is.
QueueIsFifo ==
    [][/\ \A item \in QItems :
             QEnqueue(item) => Iter(queue') = Append(Iter(queue), item)
       /\ QDequeue
             => IF Iter(queue) = <<>>
                THEN qlast'.item = <<>> /\ queue' = queue
                ELSE /\ qlast'.item = <<Head(Iter(queue))>>
                     /\ Iter(queue') = Tail(Iter(queue))
       /\ QIterate => (qlast'.result = Iter(queue) /\ queue' = queue)
       /\ queue'.size = Len(Iter(queue'))
       /\ queue'.size = Cardinality(ReachFrom(queue'.nodes, queue'.front))
       /\ (queue'.rear = None) <=> (queue'.front = None)]_vars

\* A record was enqueued behind another one after a dequeue (the node of the
\* dequeued record is reused).
QueueIsFifoWitness ==
    /\ qlast.op = "enqueue"
    /\ queue.size >= 2
    /\ queue.rear < queue.front

\* C10: a load that does not complete leaves the accounts, the balances and
\* the histories as they were.
FailedLoadKeepsState ==
    [][\A i \in 1..Len(ExternalFiles) :
          (LoadExternal(ExternalFiles[i]) /\ ~last'.ok)
              => /\ list_accounts(T)' = list_accounts(T)
                 /\ Transactions(T)' = Transactions(T)]_vars

====
